---- MODULE Spec2Model ----
(***************************************************************************)
(* Heat-analysis session engine of the Lahore UHI mapper (the densest      *)
(* variant of the front-end script): the "load heat data" and "show        *)
(* mitigation areas" click handlers, the date validation, the layer        *)
(* references and the set of layers and controls attached to the map.      *)
(*                                                                         *)
(* Dates are day numbers (the value of a date input is a calendar day);    *)
(* the empty input is EmptyDate and parses to NaN.  An async handler       *)
(* invocation is a task: a record that remembers the constants the         *)
(* handler captured and the await it is suspended at.  Handles of layers   *)
(* and controls are records stamped with the invocation that created them. *)
(*                                                                         *)
(* Spec and FairSpec are the session; ValidateSpec and RenderSpec run the  *)
(* validator and the renderers on inputs of their own; BaseMapSpec adds    *)
(* the base-map selector and what an earlier session left in localStorage; *)
(* TimerFairSpec adds the fairness of the notices' expiry timers.          *)
(***************************************************************************)
EXTENDS Integers, Sequences, FiniteSets, TLC

\* ------------------------------------------------------------------ bounds
MaxHeatCalls == 2
MaxMitCalls == 2
Today == 31
ValWindow == 4
ProbeWindow == 1
BaseMapLoads == 1
NoticeLoads == 1

\* ------------------------------------------------------- program constants
maxDays == 365
DefaultSpan == 30
\* 1000 * 60 * 60 * 24 milliseconds, counted in seconds so that every
\* timestamp fits TLC's 32-bit integers; spans are whole days either way.
PerDay == 60 * 60 * 24

\* ------------------------------------------------------------------- dates
EmptyDate == 0
NaN == -1

DefaultEnd == Today
DefaultStart == Today - DefaultSpan

\* The contents of the two date inputs at a click, <<start, end>>: the
\* defaults, the defaults with the start moved by one day, a span of exactly
\* maxDays, a span of maxDays + 1, an inverted pair one day apart, an
\* inverted pair a month apart, and an empty start input.
DateInputs ==
    {<<DefaultStart, DefaultEnd>>,
     <<DefaultStart + 1, DefaultEnd>>,
     <<DefaultStart, DefaultStart + maxDays>>,
     <<DefaultStart, DefaultStart + maxDays + 1>>,
     <<DefaultStart + 1, DefaultStart>>,
     <<DefaultEnd, DefaultStart>>,
     <<EmptyDate, DefaultEnd>>}

\* new Date(value): time since the epoch, NaN for an unparsable value.
ParseDate(v) == IF v = EmptyDate THEN NaN ELSE v * PerDay

\* a > b on numbers, false as soon as one side is NaN.
NumGt(a, b) == a # NaN /\ b # NaN /\ a > b

\* (end - start) / (one day), NaN when either date is NaN.
SpanDays(start, end) ==
    IF start = NaN \/ end = NaN THEN NaN ELSE (end - start) \div PerDay

\* a >= b on numbers, false as soon as one side is NaN.
NumGe(a, b) == a # NaN /\ b # NaN /\ a >= b

AlertNone == ""
AlertOrder == "End date must be after start date"
AlertSpan == "Date range cannot exceed 365 days"

validateDates_NoOrderCheck(s, e) ==
    LET start == ParseDate(s)
        end == ParseDate(e)
    IN IF NumGt(SpanDays(start, end), maxDays)
       THEN [ok |-> FALSE, alert |-> AlertSpan]
       ELSE [ok |-> TRUE, alert |-> AlertNone]

validateDates_InclusiveSpan(s, e) ==
    LET start == ParseDate(s)
        end == ParseDate(e)
    IN IF NumGt(start, end)
       THEN [ok |-> FALSE, alert |-> AlertOrder]
       ELSE IF NumGe(SpanDays(start, end), maxDays)
            THEN [ok |-> FALSE, alert |-> AlertSpan]
            ELSE [ok |-> TRUE, alert |-> AlertNone]

\* validateDates(): the boolean it returns and the text it passes to alert().
validateDates(s, e) ==
    LET start == ParseDate(s)
        end == ParseDate(e)
    IN IF NumGt(start, end)
       THEN [ok |-> FALSE, alert |-> AlertOrder]
       ELSE IF NumGt(SpanDays(start, end), maxDays)
            THEN [ok |-> FALSE, alert |-> AlertSpan]
            ELSE [ok |-> TRUE, alert |-> AlertNone]


\* ----------------------------------------------------------------- handles
NoRange == [start |-> NaN, end |-> NaN]
DateRange(s, e) == [start |-> s, end |-> e]

\* A layer or control object.  origin and n stamp it with the handler
\* invocation that constructed it; items, range and text are what it shows.
Handle(kind, origin, n, items, range, text) ==
    [kind |-> kind, origin |-> origin, n |-> n, items |-> items, range |-> range,
     text |-> text]

\* The null a layer reference holds before its first assignment.
Null == Handle("null", "", 0, <<>>, NoRange, "")

\* --------------------------------------------------------------- responses
NoLST == -100000
NoPriority == ""

\* Feature collections of /uhi-data: the LST of each feature, in hundredths
\* of a degree, NoLST where the attribute is absent.
HeatResponses == {<<4100, 3300, 1800>>, <<NoLST, 0>>}

\* Feature collections of /mitigation-suggestions: the priority of each
\* feature, NoPriority where the attribute is absent.
MitResponses == {<<"high", NoPriority, "urgent">>}

\* ---------------------------------------------------------- pure functions
getTemperatureColor_InclusiveTop(temp) ==
    IF temp >= 4000 THEN "#d73027"
    ELSE IF temp > 3700 THEN "#f46d43"
    ELSE IF temp > 3500 THEN "#fdae61"
    ELSE IF temp > 3200 THEN "#fee08b"
    ELSE IF temp > 3000 THEN "#ffffbf"
    ELSE IF temp > 2700 THEN "#d9ef8b"
    ELSE IF temp > 2500 THEN "#a6d96a"
    ELSE IF temp > 2200 THEN "#66bd63"
    ELSE IF temp > 2000 THEN "#1a9850"
    ELSE "#2b83ba"

getTemperatureColor_SwappedRungs(temp) ==
    IF temp > 4000 THEN "#d73027"
    ELSE IF temp > 3700 THEN "#f46d43"
    ELSE IF temp > 3500 THEN "#fdae61"
    ELSE IF temp > 3200 THEN "#fee08b"
    ELSE IF temp > 3000 THEN "#d9ef8b"
    ELSE IF temp > 2700 THEN "#ffffbf"
    ELSE IF temp > 2500 THEN "#a6d96a"
    ELSE IF temp > 2200 THEN "#66bd63"
    ELSE IF temp > 2000 THEN "#1a9850"
    ELSE "#2b83ba"

\* getTemperatureColor, on hundredths of a degree.
getTemperatureColor(temp) ==
    IF temp > 4000 THEN "#d73027"
    ELSE IF temp > 3700 THEN "#f46d43"
    ELSE IF temp > 3500 THEN "#fdae61"
    ELSE IF temp > 3200 THEN "#fee08b"
    ELSE IF temp > 3000 THEN "#ffffbf"
    ELSE IF temp > 2700 THEN "#d9ef8b"
    ELSE IF temp > 2500 THEN "#a6d96a"
    ELSE IF temp > 2200 THEN "#66bd63"
    ELSE IF temp > 2000 THEN "#1a9850"
    ELSE "#2b83ba"

lstValue_DefaultCold(lst) == IF lst = NoLST \/ lst = 0 THEN 2000 ELSE lst

\* feature.properties?.LST || 25 : an absent LST and a zero LST are falsy.
lstValue(lst) == IF lst = NoLST \/ lst = 0 THEN 2500 ELSE lst

\* style: the path options of one heat feature whose LST is lst.  The two
\* opacities are kept in tenths.
style(lst) ==
    [fillColor |-> getTemperatureColor(lstValue(lst)), weight |-> 0, opacity |-> 0,
     fillOpacity |-> 7]

\* style: the fillColor of every feature of the collection.
FillColors(data) == [i \in 1..Len(data) |-> style(data[i]).fillColor]

colors == [high |-> "#e74c3c", medium |-> "#f39c12", low |-> "#2ecc71"]

\* pointToLayer: priority || 'high', then colors[priority] || '#27ae60'.
MarkerColor(p) ==
    LET priority == IF p = NoPriority THEN "high" ELSE p
    IN IF priority \in DOMAIN colors THEN colors[priority] ELSE "#27ae60"

\* pointToLayer: the circle marker options of one mitigation feature whose
\* priority is p.
pointToLayer(p) ==
    [radius |-> 6, fillColor |-> MarkerColor(p), color |-> "#fff", weight |-> 1,
     fillOpacity |-> 8]

MarkerColors(data) == [i \in 1..Len(data) |-> pointToLayer(data[i]).fillColor]

LegendLabels == <<"25", "30", "35", "40+">>

\* What rendered holds before the renderers have run.
NotRendered ==
    [colorA |-> "", colorB |-> "",
     style |-> [fillColor |-> "", weight |-> 0, opacity |-> 0, fillOpacity |-> 0],
     marker |-> [radius |-> 0, fillColor |-> "", color |-> "", weight |-> 0,
                 fillOpacity |-> 0]]

\* ---------------------------------------------------------------- base maps
\* const baseLayers: the four tile layers, by their key.
baseLayers ==
    [name \in {"Street Map", "Satellite", "Topographical", "Hybrid"} |->
        Handle("tile", "base", 0, <<>>, NoRange, name)]

\* The key the change handler looks up for the value of the selector.
BaseLayerKey(selectedMap) ==
    IF selectedMap = "satellite" THEN "Satellite"
    ELSE IF selectedMap = "topo" THEN "Topographical"
    ELSE IF selectedMap = "hybrid" THEN "Hybrid"
    ELSE "Street Map"

\* localStorage.getItem of a key that was never set.
NoItem == "null"

\* The values the selector can take; "terrain" stands for any value the
\* change handler has no branch for.
BaseMapValues == {"street", "satellite", "topo", "hybrid", "terrain"}

\* ------------------------------------------------------------ map surface
\* map.removeLayer / map.removeControl / control.remove: detaches exactly the
\* object given, and is a no-op for an object that is not attached.
removeLayer_Noop(m, h) == m

removeLayer(m, h) == m \ {h}

\* layer.addTo(map) / map.addLayer / control.addTo(map).
addLayer(m, h) == m \cup {h}

removeIfSet_ClearsOverlays(m, ref) ==
    IF ref # Null THEN {h \in m : h.kind \in {"tile", "alert", "loading"}} ELSE m

\* if (ref) map.removeLayer(ref)
removeIfSet(m, ref) == IF ref # Null THEN removeLayer(m, ref) ELSE m

showAlert_Silent(m, origin, n, type) == m

showAlert_SingleSlot(m, origin, n, type) ==
    addLayer(m, Handle("alert", "shared", 0, <<type>>, NoRange, ""))

\* showAlert(message, type): a control of class alert-<type> is attached.  The
\* text of the message is not kept: nothing the handlers do depends on it.
showAlert(m, origin, n, type) ==
    addLayer(m, Handle("alert", origin, n, <<type>>, NoRange, ""))

SameDateRange_Never(cur, startDate, endDate) == FALSE

\* currentDateRange && currentDateRange.start === startDate &&
\* currentDateRange.end === endDate
SameDateRange(cur, startDate, endDate) ==
    cur # NoRange /\ cur.start = startDate /\ cur.end = endDate

ResetDisabled_Skipped == TRUE

\* loadBtn.disabled = false / mitBtn.disabled = false, in the finally block.
ResetDisabled == FALSE

LoadingDisabled_Stays == FALSE

\* loadBtn.disabled = true / mitBtn.disabled = true, on entering the try block.
LoadingDisabled == TRUE

\* ------------------------------------------------------------------- state
VARIABLES
    map,               \* the layers and controls attached to the map
    uhiLayer,          \* let uhiLayer
    legend,            \* let legend
    mitigationLayer,   \* let mitigationLayer
    currentDateRange,  \* let currentDateRange
    loadBtnDisabled,   \* #load-data .disabled
    mitBtnDisabled,    \* #show-mitigation .disabled
    heatTasks,         \* suspended invocations of the load-data handler
    mitTasks,          \* suspended invocations of the show-mitigation handler
    heatCalls,         \* fetch('/uhi-data?...') calls issued so far
    mitCalls,          \* fetch('/mitigation-suggestions') calls issued so far
    alertShown,        \* text alert() showed during the last load-data click
    clickOutcome,      \* history: how the last load-data click ended
    valStart,          \* validator run on its own: the start input,
    valEnd,            \*   the end input,
    valResult,         \*   and what validateDates() returned for them
    lastLoaded,        \* history: range of the last load that completed
    loadsSince,        \* history: requests issued since that load completed
    probe,             \* renderers run on their own: the features given,
    rendered,          \*   and what the renderers returned for them
    baseMapSelect,     \* #base-map .value
    selectedBaseMap    \* localStorage item 'selectedBaseMap'

vars ==
    <<map, uhiLayer, legend, mitigationLayer, currentDateRange, loadBtnDisabled,
      mitBtnDisabled, heatTasks, mitTasks, heatCalls, mitCalls, alertShown,
      clickOutcome, valStart, valEnd, valResult, lastLoaded, loadsSince, probe,
      rendered, baseMapSelect, selectedBaseMap>>

heatVars == <<uhiLayer, legend, currentDateRange, loadBtnDisabled, heatTasks,
              heatCalls, alertShown, clickOutcome, lastLoaded, loadsSince>>
mitVars == <<mitigationLayer, mitBtnDisabled, mitTasks, mitCalls>>
valVars == <<valStart, valEnd, valResult>>
renderVars == <<probe, rendered>>
baseVars == <<baseMapSelect, selectedBaseMap>>
\* What the load, mitigation and notice handlers never touch.
otherVars == <<valVars, renderVars, baseVars>>
sessionVars == <<map, uhiLayer, legend, mitigationLayer, currentDateRange,
                 loadBtnDisabled, mitBtnDisabled, heatTasks, mitTasks, heatCalls,
                 mitCalls, alertShown, clickOutcome, lastLoaded, loadsSince>>

\* What valResult holds before validateDates() has run.
NotRun == [ok |-> FALSE, alert |-> "not run"]

\* A suspended handler invocation: its number, the startDate and endDate it
\* captured, the await it waits at, response.ok and the parsed body.
Task(n, s, e, pc, ok, data) ==
    [n |-> n, startDate |-> s, endDate |-> e, pc |-> pc, ok |-> ok, data |-> data]

\* const loadingControl of invocation n.
loadingControl(n) == Handle("loading", "heat", n, <<>>, NoRange, "Loading UHI data...")

\* The synchronous tail of a handler runs to completion: while it is between
\* two of its statements no other event is dispatched.
Busy ==
    \/ \E t \in heatTasks : t.pc \in {"addLayer", "addLegend", "finally"}
    \/ \E t \in mitTasks : t.pc = "finally"

SessionInit ==
    /\ map = {baseLayers["Street Map"]}
    /\ uhiLayer = Null
    /\ legend = Null
    /\ mitigationLayer = Null
    /\ currentDateRange = DateRange(DefaultStart, DefaultEnd)
    /\ loadBtnDisabled = FALSE
    /\ mitBtnDisabled = FALSE
    /\ heatTasks = {}
    /\ mitTasks = {}
    /\ heatCalls = 0
    /\ mitCalls = 0
    /\ alertShown = AlertNone
    /\ clickOutcome = "none"
    /\ lastLoaded = NoRange
    /\ loadsSince = 0

\* The validator is not run on its own.
ValIdle ==
    /\ valStart = DefaultStart
    /\ valEnd = DefaultEnd
    /\ valResult = NotRun

\* The renderers are not run on their own.
RenderIdle ==
    /\ probe = [a |-> NoLST, b |-> 0, priority |-> NoPriority]
    /\ rendered = NotRendered

\* const savedBaseMap = localStorage.getItem('selectedBaseMap') || 'street';
\* baseMapSelect.value = savedBaseMap;
savedBaseMap(item) == IF item = NoItem THEN "street" ELSE item

\* A first visit: nothing is stored yet.
BaseFirstVisit ==
    /\ selectedBaseMap = NoItem
    /\ baseMapSelect = savedBaseMap(selectedBaseMap)

Init ==
    /\ SessionInit
    /\ ValIdle
    /\ RenderIdle
    /\ BaseFirstVisit

\* ------------------------------------------------------- load-data handler
\* Click on #load-data with the date inputs holding s and e, up to the first
\* await.  A click on a disabled button is not dispatched.
LoadDataClick(s, e) ==
    /\ ~loadBtnDisabled
    /\ ~Busy
    /\ LET v == validateDates(s, e)
       IN IF ~v.ok
          THEN /\ alertShown' = v.alert
               /\ clickOutcome' = "aborted"
               /\ UNCHANGED <<map, uhiLayer, legend, currentDateRange, loadBtnDisabled,
                              heatTasks, heatCalls, lastLoaded, loadsSince>>
          ELSE IF SameDateRange(currentDateRange, s, e)
          THEN /\ alertShown' = AlertNone
               /\ clickOutcome' = "skipped"
               /\ UNCHANGED <<map, uhiLayer, legend, currentDateRange, loadBtnDisabled,
                              heatTasks, heatCalls, lastLoaded, loadsSince>>
          ELSE /\ heatCalls < MaxHeatCalls
               /\ alertShown' = AlertNone
               /\ clickOutcome' = "requested"
               /\ currentDateRange' = DateRange(s, e)
               /\ loadBtnDisabled' = LoadingDisabled
               /\ map' = addLayer(map, loadingControl(heatCalls + 1))
               /\ heatCalls' = heatCalls + 1
               /\ heatTasks' =
                      heatTasks \cup {Task(heatCalls + 1, s, e, "fetch", TRUE, <<>>)}
               /\ loadsSince' = loadsSince + 1
               /\ UNCHANGED <<uhiLayer, legend, lastLoaded>>
    /\ UNCHANGED <<mitVars, otherVars>>

\* catch (error) { showAlert(`Error: ${error.message}`, 'error') }
HeatCatch(t) ==
    /\ map' = showAlert(map, "heat", t.n, "error")
    /\ heatTasks' = (heatTasks \ {t}) \cup {[t EXCEPT !.pc = "finally"]}
    /\ UNCHANGED <<uhiLayer, legend, currentDateRange, loadBtnDisabled, heatCalls,
                   alertShown, clickOutcome, lastLoaded, loadsSince>>
    /\ UNCHANGED <<mitVars, otherVars>>

\* finally { loadBtn.disabled = false } after the catch block, ending
\* invocation t.
HeatFinally(t) ==
    /\ t.pc = "finally"
    /\ loadBtnDisabled' = ResetDisabled
    /\ heatTasks' = heatTasks \ {t}
    /\ UNCHANGED <<map, uhiLayer, legend, currentDateRange, heatCalls, alertShown,
                   clickOutcome, lastLoaded, loadsSince>>
    /\ UNCHANGED <<mitVars, otherVars>>

\* fetch() rejects: the transport failed.
HeatFetchRejected(t) ==
    /\ ~Busy
    /\ t.pc = "fetch"
    /\ HeatCatch(t)

\* fetch() resolves with a response whose ok flag is ok.
HeatFetchResolved(t, ok) ==
    /\ ~Busy
    /\ t.pc = "fetch"
    /\ heatTasks' = (heatTasks \ {t}) \cup {[t EXCEPT !.pc = "json", !.ok = ok]}
    /\ UNCHANGED <<map, uhiLayer, legend, currentDateRange, loadBtnDisabled, heatCalls,
                   alertShown, clickOutcome, lastLoaded, loadsSince>>
    /\ UNCHANGED <<mitVars, otherVars>>

\* response.json() rejects: the body is not JSON.
HeatJsonRejected(t) ==
    /\ ~Busy
    /\ t.pc = "json"
    /\ HeatCatch(t)

\* !response.ok: throw new Error(error.detail || 'Failed to fetch UHI data').
HeatErrorBody(t) ==
    /\ ~Busy
    /\ t.pc = "json"
    /\ ~t.ok
    /\ HeatCatch(t)

\* The body of an ok response arrives: the existing layers are removed.
HeatData(t, data) ==
    /\ ~Busy
    /\ t.pc = "json"
    /\ t.ok
    /\ map' = removeLayer(removeIfSet(removeIfSet(map, uhiLayer), legend),
                          loadingControl(t.n))
    /\ heatTasks' = (heatTasks \ {t}) \cup {[t EXCEPT !.pc = "addLayer", !.data = data]}
    /\ UNCHANGED <<uhiLayer, legend, currentDateRange, loadBtnDisabled, heatCalls,
                   alertShown, clickOutcome, lastLoaded, loadsSince>>
    /\ UNCHANGED <<mitVars, otherVars>>

\* uhiLayer = L.geoJSON(data, {style, onEachFeature}).addTo(map)
HeatAddLayer(t) ==
    /\ t.pc = "addLayer"
    /\ LET h == Handle("heat", "heat", t.n, FillColors(t.data), NoRange, "")
       IN /\ uhiLayer' = h
          /\ map' = addLayer(map, h)
    /\ heatTasks' = (heatTasks \ {t}) \cup {[t EXCEPT !.pc = "addLegend"]}
    /\ UNCHANGED <<legend, currentDateRange, loadBtnDisabled, heatCalls, alertShown,
                   clickOutcome, lastLoaded, loadsSince>>
    /\ UNCHANGED <<mitVars, otherVars>>

\* legend = L.control(...); legend.addTo(map); finally { loadBtn.disabled = false }
HeatAddLegend(t) ==
    /\ t.pc = "addLegend"
    /\ LET h == Handle("legend", "heat", t.n, LegendLabels,
                       DateRange(t.startDate, t.endDate), "")
       IN /\ legend' = h
          /\ map' = addLayer(map, h)
    /\ loadBtnDisabled' = ResetDisabled
    /\ heatTasks' = heatTasks \ {t}
    /\ lastLoaded' = DateRange(t.startDate, t.endDate)
    /\ loadsSince' = 0
    /\ UNCHANGED <<uhiLayer, currentDateRange, heatCalls, alertShown, clickOutcome>>
    /\ UNCHANGED <<mitVars, otherVars>>

\* -------------------------------------------------- show-mitigation handler
ShowMitigationClick ==
    /\ ~mitBtnDisabled
    /\ ~Busy
    /\ mitCalls < MaxMitCalls
    /\ mitBtnDisabled' = LoadingDisabled
    /\ mitCalls' = mitCalls + 1
    /\ mitTasks' = mitTasks \cup {Task(mitCalls + 1, EmptyDate, EmptyDate, "fetch", TRUE, <<>>)}
    /\ UNCHANGED <<map, mitigationLayer>>
    /\ UNCHANGED <<heatVars, otherVars>>

MitCatch(t) ==
    /\ map' = showAlert(map, "mitigation", t.n, "error")
    /\ mitTasks' = (mitTasks \ {t}) \cup {[t EXCEPT !.pc = "finally"]}
    /\ UNCHANGED <<mitigationLayer, mitBtnDisabled, mitCalls>>
    /\ UNCHANGED <<heatVars, otherVars>>

\* finally { mitBtn.disabled = false } after the catch block, ending
\* invocation t.
MitFinally(t) ==
    /\ t.pc = "finally"
    /\ mitBtnDisabled' = ResetDisabled
    /\ mitTasks' = mitTasks \ {t}
    /\ UNCHANGED <<map, mitigationLayer, mitCalls>>
    /\ UNCHANGED <<heatVars, otherVars>>

MitFetchRejected(t) ==
    /\ ~Busy
    /\ t.pc = "fetch"
    /\ MitCatch(t)

MitFetchResolved(t, ok) ==
    /\ ~Busy
    /\ t.pc = "fetch"
    /\ mitTasks' = (mitTasks \ {t}) \cup {[t EXCEPT !.pc = "json", !.ok = ok]}
    /\ UNCHANGED <<map, mitigationLayer, mitBtnDisabled, mitCalls>>
    /\ UNCHANGED <<heatVars, otherVars>>

MitJsonRejected(t) ==
    /\ ~Busy
    /\ t.pc = "json"
    /\ MitCatch(t)

MitErrorBody(t) ==
    /\ ~Busy
    /\ t.pc = "json"
    /\ ~t.ok
    /\ MitCatch(t)

\* The body of an ok response arrives: remove the existing layer, build the
\* cluster group, add the GeoJSON layer to it and the group to the map.
MitData(t, data) ==
    /\ ~Busy
    /\ t.pc = "json"
    /\ t.ok
    /\ LET markers == Handle("cluster", "mitigation", t.n, MarkerColors(data), NoRange, "")
           layer == Handle("geojson", "mitigation", t.n, MarkerColors(data), NoRange, "")
       IN /\ mitigationLayer' = layer
          /\ map' = addLayer(removeIfSet(map, mitigationLayer), markers)
    /\ mitBtnDisabled' = ResetDisabled
    /\ mitTasks' = mitTasks \ {t}
    /\ UNCHANGED mitCalls
    /\ UNCHANGED <<heatVars, otherVars>>

\* ------------------------------------------------------------ notifications
\* setTimeout(() => alert.remove(), 5000) of notice h fires.
AlertExpires(h) ==
    /\ ~Busy
    /\ h \in map
    /\ h.kind = "alert"
    /\ map' = removeLayer(map, h)
    /\ UNCHANGED <<uhiLayer, legend, mitigationLayer, currentDateRange, loadBtnDisabled,
                   mitBtnDisabled, heatTasks, mitTasks, heatCalls, mitCalls, alertShown,
                   clickOutcome, lastLoaded, loadsSince, otherVars>>

\* -------------------------------------------------------- base-map selector
removeBaseLayers_StreetOnly(m) == removeLayer(m, baseLayers["Street Map"])

\* Object.values(baseLayers).forEach(layer => map.removeLayer(layer))
removeBaseLayers(m) ==
    removeLayer(removeLayer(removeLayer(removeLayer(m, baseLayers["Street Map"]),
                                        baseLayers["Satellite"]),
                            baseLayers["Topographical"]),
                baseLayers["Hybrid"])

\* The user picks v in #base-map: the change handler stores the value, detaches
\* the four tile layers and attaches the one the value names.
BaseMapChange(v) ==
    /\ ~Busy
    /\ v # baseMapSelect
    /\ baseMapSelect' = v
    /\ selectedBaseMap' = v
    /\ map' = addLayer(removeBaseLayers(map), baseLayers[BaseLayerKey(v)])
    /\ UNCHANGED <<uhiLayer, legend, mitigationLayer, currentDateRange, loadBtnDisabled,
                   mitBtnDisabled, heatTasks, mitTasks, heatCalls, mitCalls, alertShown,
                   clickOutcome, lastLoaded, loadsSince, valVars, renderVars>>

\* ------------------------------------------------------------ specification
\* Some continuation of a load-data invocation runs.
HeatResponse ==
    \E t \in heatTasks :
        \/ HeatFetchRejected(t)
        \/ \E ok \in BOOLEAN : HeatFetchResolved(t, ok)
        \/ HeatJsonRejected(t)
        \/ HeatErrorBody(t)
        \/ \E data \in HeatResponses : HeatData(t, data)
        \/ HeatAddLayer(t)
        \/ HeatAddLegend(t)
        \/ HeatFinally(t)

\* Some continuation of a show-mitigation invocation runs.
MitResponse ==
    \E t \in mitTasks :
        \/ MitFetchRejected(t)
        \/ \E ok \in BOOLEAN : MitFetchResolved(t, ok)
        \/ MitJsonRejected(t)
        \/ MitErrorBody(t)
        \/ \E data \in MitResponses : MitData(t, data)
        \/ MitFinally(t)

\* Some expiry timer fires.
AlertTimer == \E h \in map : AlertExpires(h)

Next ==
    \/ \E d \in DateInputs : LoadDataClick(d[1], d[2])
    \/ \E t \in heatTasks : HeatFetchRejected(t)
    \/ \E t \in heatTasks, ok \in BOOLEAN : HeatFetchResolved(t, ok)
    \/ \E t \in heatTasks : HeatJsonRejected(t)
    \/ \E t \in heatTasks : HeatErrorBody(t)
    \/ \E t \in heatTasks, data \in HeatResponses : HeatData(t, data)
    \/ \E t \in heatTasks : HeatAddLayer(t)
    \/ \E t \in heatTasks : HeatAddLegend(t)
    \/ \E t \in heatTasks : HeatFinally(t)
    \/ ShowMitigationClick
    \/ \E t \in mitTasks : MitFetchRejected(t)
    \/ \E t \in mitTasks, ok \in BOOLEAN : MitFetchResolved(t, ok)
    \/ \E t \in mitTasks : MitJsonRejected(t)
    \/ \E t \in mitTasks : MitErrorBody(t)
    \/ \E t \in mitTasks, data \in MitResponses : MitData(t, data)
    \/ \E t \in mitTasks : MitFinally(t)
    \/ \E h \in map : AlertExpires(h)

Spec == Init /\ [][Next]_vars

\* Every response is eventually delivered, and a handler that has resumed
\* runs on to its end.
FairSpec ==
    /\ Spec
    /\ WF_vars(HeatResponse)
    /\ WF_vars(MitResponse)

\* --------------------------------------------------- notices and their timers
\* Every notice a handler invocation can create within NoticeLoads requests of
\* each kind.
Notices ==
    {Handle("alert", origin, n, <<"error">>, NoRange, "") :
        origin \in {"heat", "mitigation"}, n \in 1..NoticeLoads}

\* The handlers and the timers, with at most NoticeLoads requests of each kind.
NoticeNext ==
    \/ \E d \in DateInputs : heatCalls < NoticeLoads /\ LoadDataClick(d[1], d[2])
    \/ \E t \in heatTasks : HeatFetchRejected(t)
    \/ \E t \in heatTasks, ok \in BOOLEAN : HeatFetchResolved(t, ok)
    \/ \E t \in heatTasks : HeatJsonRejected(t)
    \/ \E t \in heatTasks : HeatErrorBody(t)
    \/ \E t \in heatTasks, data \in HeatResponses : HeatData(t, data)
    \/ \E t \in heatTasks : HeatAddLayer(t)
    \/ \E t \in heatTasks : HeatAddLegend(t)
    \/ \E t \in heatTasks : HeatFinally(t)
    \/ mitCalls < NoticeLoads /\ ShowMitigationClick
    \/ \E t \in mitTasks : MitFetchRejected(t)
    \/ \E t \in mitTasks, ok \in BOOLEAN : MitFetchResolved(t, ok)
    \/ \E t \in mitTasks : MitJsonRejected(t)
    \/ \E t \in mitTasks : MitErrorBody(t)
    \/ \E t \in mitTasks, data \in MitResponses : MitData(t, data)
    \/ \E t \in mitTasks : MitFinally(t)
    \/ \E h \in map : AlertExpires(h)

\* Every response is eventually delivered, a handler that has resumed runs on
\* to its end, and the expiry timer of every notice eventually fires.
TimerFairSpec ==
    /\ Init
    /\ [][NoticeNext]_vars
    /\ WF_vars(HeatResponse)
    /\ WF_vars(MitResponse)
    /\ \A h \in Notices : WF_vars(AlertExpires(h))

\* --------------------------------------------- the validator run on its own
\* Day numbers around both ends of a span of maxDays, and the empty input.
ValDates == {EmptyDate} \cup (1..ValWindow) \cup (maxDays..(maxDays + ValWindow))

ValidateInit ==
    /\ SessionInit
    /\ RenderIdle
    /\ BaseFirstVisit
    /\ valStart \in ValDates
    /\ valEnd \in ValDates
    /\ valResult = NotRun

\* validateDates() is called with the inputs holding valStart and valEnd.
Validate ==
    /\ valResult = NotRun
    /\ valResult' = validateDates(valStart, valEnd)
    /\ UNCHANGED <<valStart, valEnd>>
    /\ UNCHANGED <<sessionVars, renderVars, baseVars>>

ValidateSpec == ValidateInit /\ [][Validate]_vars

\* --------------------------------------------- the renderers run on their own
\* Temperatures in hundredths of a degree: every whole degree from 18 to 42,
\* and the hundredths within ProbeWindow of it.
ProbeTemps ==
    {t \in (1800 - ProbeWindow)..(4200 + ProbeWindow) :
        \E d \in 18..42 : t - 100 * d \in (0 - ProbeWindow)..ProbeWindow}

\* The priority attribute of a mitigation feature: the three mapped values, the
\* absent attribute, and a value the colors object has no property for.
ProbePriorities == {"high", "medium", "low", NoPriority, "urgent"}

RenderInit ==
    /\ SessionInit
    /\ ValIdle
    /\ BaseFirstVisit
    /\ probe \in [a : ProbeTemps \cup {NoLST, 0}, b : ProbeTemps,
                   priority : ProbePriorities]
    /\ rendered = NotRendered

\* getTemperatureColor is called on probe.a and on probe.b, style on a heat
\* feature whose LST is probe.a, pointToLayer on a mitigation feature whose
\* priority is probe.priority.
Render ==
    /\ rendered = NotRendered
    /\ rendered' = [colorA |-> getTemperatureColor(probe.a),
                    colorB |-> getTemperatureColor(probe.b),
                    style |-> style(probe.a),
                    marker |-> pointToLayer(probe.priority)]
    /\ UNCHANGED probe
    /\ UNCHANGED <<sessionVars, valVars, baseVars>>

RenderSpec == RenderInit /\ [][Render]_vars

\* ------------------------------------------------- the base-map selector
\* The view opens with whatever an earlier session left in localStorage.
BaseMapInit ==
    /\ SessionInit
    /\ ValIdle
    /\ RenderIdle
    /\ selectedBaseMap \in BaseMapValues \cup {NoItem}
    /\ baseMapSelect = savedBaseMap(selectedBaseMap)

\* The load-data and show-mitigation handlers, the notices and the base-map
\* selector together, with at most BaseMapLoads requests of each kind.
BaseMapNext ==
    \/ \E v \in BaseMapValues : BaseMapChange(v)
    \/ \E d \in DateInputs : heatCalls < BaseMapLoads /\ LoadDataClick(d[1], d[2])
    \/ \E t \in heatTasks : HeatFetchRejected(t)
    \/ \E t \in heatTasks, ok \in BOOLEAN : HeatFetchResolved(t, ok)
    \/ \E t \in heatTasks : HeatJsonRejected(t)
    \/ \E t \in heatTasks : HeatErrorBody(t)
    \/ \E t \in heatTasks, data \in HeatResponses : HeatData(t, data)
    \/ \E t \in heatTasks : HeatAddLayer(t)
    \/ \E t \in heatTasks : HeatAddLegend(t)
    \/ \E t \in heatTasks : HeatFinally(t)
    \/ mitCalls < BaseMapLoads /\ ShowMitigationClick
    \/ \E t \in mitTasks : MitFetchRejected(t)
    \/ \E t \in mitTasks, ok \in BOOLEAN : MitFetchResolved(t, ok)
    \/ \E t \in mitTasks : MitJsonRejected(t)
    \/ \E t \in mitTasks : MitErrorBody(t)
    \/ \E t \in mitTasks, data \in MitResponses : MitData(t, data)
    \/ \E t \in mitTasks : MitFinally(t)
    \/ \E h \in map : AlertExpires(h)

BaseMapSpec == BaseMapInit /\ [][BaseMapNext]_vars

\* ------------------------------------------------------------------ claims
Attached(kind) == {h \in map : h.kind = kind}

\* A range as the validator's contract words it, on day numbers.
Filled(s, e) == s # EmptyDate /\ e # EmptyDate
InOrder(s, e) == Filled(s, e) /\ s <= e
WithinSpan(s, e) == Filled(s, e) /\ e - s <= 365
ValidRange(s, e) == InOrder(s, e) /\ WithinSpan(s, e)

\* C1: triggering "load heat data" while the trigger is enabled, with a valid
\* range that differs from the last successfully loaded range (or when no
\* range has been loaded yet), issues exactly one backend call.
C1_ChangeTriggersReload ==
    [][\A d \in DateInputs :
          (/\ LoadDataClick(d[1], d[2])
           /\ ValidRange(d[1], d[2])
           /\ lastLoaded # DateRange(d[1], d[2]))
          => heatCalls' = heatCalls + 1]_vars

\* C2: once a load for range R has completed, with no other load since,
\* triggering again with R issues no backend call and leaves currentDateRange,
\* the heat layer and the legend as they are.
C2_Idempotence ==
    [][\A d \in DateInputs :
          (/\ LoadDataClick(d[1], d[2])
           /\ lastLoaded = DateRange(d[1], d[2])
           /\ loadsSince = 0)
          => /\ heatCalls' = heatCalls
             /\ heatTasks' = heatTasks
             /\ UNCHANGED <<currentDateRange, uhiLayer, legend, map>>]_vars

\* A load completed and the click that followed it with the same range was
\* skipped.
C2_Witness ==
    /\ lastLoaded # NoRange
    /\ loadsSince = 0
    /\ currentDateRange = lastLoaded
    /\ clickOutcome = "skipped"
    /\ uhiLayer \in map
    /\ legend \in map


\* A heat load fails with a transport error or an error the backend reports.
HeatFailure == \E t \in heatTasks : HeatFetchRejected(t) \/ HeatErrorBody(t)

\* A mitigation load fails the same way.
MitFailure == \E t \in mitTasks : MitFetchRejected(t) \/ MitErrorBody(t)

\* A notice that the step attaches.
NoticeSurfaced == \E h \in map' \ map : h.kind = "alert" /\ h.items = <<"error">>

\* C3: a load that fails with a transport error or a backend-reported error
\* leaves the layers of the earlier successful load of its track attached and
\* unchanged (heat layer and legend; mitigation container), and surfaces a
\* notification.
C3_FailedLoadPreservesLayers ==
    [][/\ HeatFailure =>
            /\ UNCHANGED <<uhiLayer, legend>>
            /\ Attached("heat")' = Attached("heat")
            /\ Attached("legend")' = Attached("legend")
            /\ NoticeSurfaced
       /\ MitFailure =>
            /\ UNCHANGED mitigationLayer
            /\ Attached("cluster")' = Attached("cluster")
            /\ NoticeSurfaced]_vars

\* On both tracks a load failed after an earlier one had attached its layers:
\* the layers of the earlier load and the notice of the later one are attached.
C3_Witness ==
    /\ uhiLayer \in map
    /\ legend \in map
    /\ \E h \in Attached("alert") : h.origin = "heat" /\ h.n > uhiLayer.n
    /\ \E c \in Attached("cluster") :
          \E h \in Attached("alert") : h.origin = "mitigation" /\ h.n > c.n

\* C4: at every step, the steps of a layer swap included, at most one heat
\* layer and at most one legend are attached; the swap has removed the previous
\* handle of a kind before it attaches the new one; and once a load has
\* completed, outside a swap exactly one of each is attached, the one the
\* reference holds.
C4_SingleHeatLayerAndLegend ==
    /\ Cardinality(Attached("heat")) <= 1
    /\ Cardinality(Attached("legend")) <= 1
    /\ \A t \in heatTasks :
          /\ t.pc = "addLayer" => Attached("heat") = {} /\ Attached("legend") = {}
          /\ t.pc = "addLegend" => Attached("heat") = {uhiLayer} /\ Attached("legend") = {}
    /\ (lastLoaded # NoRange /\ ~Busy) =>
          /\ Attached("heat") = {uhiLayer}
          /\ Attached("legend") = {legend}

\* Two loads in a row completed: the first left no loading indicator behind, so
\* it did not fail, and the layers attached are those of the second.
C4_Witness ==
    /\ heatTasks = {}
    /\ uhiLayer.n = 2
    /\ legend.n = 2
    /\ Attached("loading") = {}
    /\ Attached("heat") = {uhiLayer}
    /\ Attached("legend") = {legend}

\* The container a mitigation load builds around the layer the reference holds.
ContainerOf(layer) == [layer EXCEPT !.kind = "cluster"]

\* C5: after any number of successful mitigation loads exactly one cluster
\* container is attached, the one built from the latest response.
C5_SingleMitigationContainer ==
    mitigationLayer # Null => Attached("cluster") = {ContainerOf(mitigationLayer)}

\* C6: a loading indicator is attached only while a heat request is
\* outstanding, and never more than one.
C6_LoadingIndicatorCleared ==
    /\ Cardinality(Attached("loading")) <= 1
    /\ heatTasks = {} => Attached("loading") = {}

\* C7: a click with a range the validator rejects (start > end, or a span over
\* 365 days) issues no request and changes neither currentDateRange, nor a
\* layer, nor what is attached, nor the enabled state of a trigger.
C7_ValidationFailureAborts ==
    [][\A d \in DateInputs :
          (/\ LoadDataClick(d[1], d[2])
           /\ Filled(d[1], d[2])
           /\ (d[1] > d[2] \/ d[2] - d[1] > 365))
          => /\ heatCalls' = heatCalls
             /\ heatTasks' = heatTasks
             /\ UNCHANGED <<currentDateRange, uhiLayer, legend, mitigationLayer, map,
                            loadBtnDisabled, mitBtnDisabled>>]_vars

\* A click was aborted by the validator after a load had attached its layers.
C7_Witness ==
    /\ clickOutcome = "aborted"
    /\ alertShown # AlertNone
    /\ uhiLayer \in map
    /\ legend \in map

\* C8: each track has at most one request in flight.
C8_OneRequestPerTrack ==
    /\ Cardinality(heatTasks) <= 1
    /\ Cardinality(mitTasks) <= 1

\* Both tracks have their request in flight, each after an earlier one ended.
C8_Witness ==
    /\ \E t \in heatTasks : t.n = 2 /\ t.pc = "fetch"
    /\ \E t \in mitTasks : t.n = 2 /\ t.pc = "fetch"

\* The control of a track is disabled exactly while the track has a request
\* outstanding; a click that was aborted or skipped leaves it enabled.
TriggerDisabledWhileLoading ==
    /\ loadBtnDisabled <=> heatTasks # {}
    /\ mitBtnDisabled <=> mitTasks # {}
    /\ clickOutcome \in {"aborted", "skipped"} => ~loadBtnDisabled

\* C9: the control of a track is disabled exactly while its request is
\* outstanding, it is enabled after every outcome of a trigger, and when
\* responses are delivered a disabled control is eventually enabled again.
C9_TriggerReturnsToEnabled ==
    /\ []TriggerDisabledWhileLoading
    /\ loadBtnDisabled ~> ~loadBtnDisabled
    /\ mitBtnDisabled ~> ~mitBtnDisabled

\* Both controls are enabled again after a request of each track has ended,
\* the heat one with an error.
C9_Witness ==
    /\ ~loadBtnDisabled
    /\ ~mitBtnDisabled
    /\ heatCalls >= 1
    /\ mitCalls >= 1
    /\ \E h \in Attached("alert") : h.origin = "heat"

\* C10: validate(start, end) is InvalidOrder when start > end, Ok when
\* start <= end with a span of at most 365 days, RangeTooLarge when the span is
\* 366 days or more; running it leaves the session state as it was.
C10_ValidatorResult ==
    (valResult # NotRun /\ Filled(valStart, valEnd)) =>
        /\ valStart > valEnd => valResult = [ok |-> FALSE, alert |-> AlertOrder]
        /\ (valStart <= valEnd /\ valEnd - valStart <= 365) =>
               valResult = [ok |-> TRUE, alert |-> AlertNone]
        /\ valEnd - valStart >= 366 => valResult = [ok |-> FALSE, alert |-> AlertSpan]
        /\ SessionInit

\* The validator accepted a span of exactly 365 days.
C10_Witness ==
    /\ Filled(valStart, valEnd)
    /\ valEnd - valStart = 365
    /\ valResult = [ok |-> TRUE, alert |-> AlertNone]

\* The ten colour bands of the classifier, coldest first, by the colour the
\* classifier returns for them.
Bands ==
    <<"#2b83ba", "#1a9850", "#66bd63", "#a6d96a", "#d9ef8b", "#ffffbf", "#fee08b",
      "#fdae61", "#f46d43", "#d73027">>

BandNames ==
    <<"cold", "coolGreen", "cooler", "cool", "mild", "warm", "moderateHigh", "high",
      "veryHigh", "extreme">>

\* The place of a colour on the cold-to-extreme ladder, 0 for no band.
BandRank(c) ==
    IF \E i \in 1..Len(Bands) : Bands[i] = c
    THEN CHOOSE i \in 1..Len(Bands) : Bands[i] = c
    ELSE 0

BandName(c) == IF BandRank(c) = 0 THEN "none" ELSE BandNames[BandRank(c)]

HasRendered == rendered # NotRendered

\* C11, as claimed: classify(40.0) is high, classify(40.01) is extreme,
\* classify(20.0) is cold and classify(20.01) is coolGreen.
C11_BoundariesAsClaimed ==
    HasRendered =>
        /\ probe.a = 4000 => BandName(rendered.colorA) = "high"
        /\ probe.a = 4001 => BandName(rendered.colorA) = "extreme"
        /\ probe.a = 2000 => BandName(rendered.colorA) = "cold"
        /\ probe.a = 2001 => BandName(rendered.colorA) = "coolGreen"

\* C11, amended: every threshold is exclusive.  classify(40.0) is veryHigh (it
\* is above 37 and not above 40, so it is not extreme), classify(40.01) is
\* extreme, classify(20.0) is cold and classify(20.01) is coolGreen.
C11_BoundaryExactness ==
    HasRendered =>
        /\ probe.a = 4000 => BandName(rendered.colorA) = "veryHigh"
        /\ probe.a = 4001 => BandName(rendered.colorA) = "extreme"
        /\ probe.a = 2000 => BandName(rendered.colorA) = "cold"
        /\ probe.a = 2001 => BandName(rendered.colorA) = "coolGreen"

C11_Witness == HasRendered /\ probe.a = 4000 /\ rendered.colorA = "#f46d43"

\* C12: the classifier is total and monotonic: every temperature maps to
\* exactly one of the ten bands, and a temperature that is at least another
\* never falls in a colder band than the other.
C12_TotalAndMonotonic ==
    (HasRendered /\ probe.a # NoLST) =>
        /\ BandRank(rendered.colorA) \in 1..10
        /\ BandRank(rendered.colorB) \in 1..10
        /\ probe.a <= probe.b => BandRank(rendered.colorA) <= BandRank(rendered.colorB)
        /\ probe.a >= probe.b => BandRank(rendered.colorA) >= BandRank(rendered.colorB)

C12_Witness ==
    /\ HasRendered
    /\ probe.a = 2701
    /\ probe.b = 3001
    /\ BandRank(rendered.colorA) < BandRank(rendered.colorB)

\* C13: the marker style is '#e74c3c' for priority high, for an absent
\* priority and for every priority outside {high, medium, low}, '#f39c12' for
\* medium and '#2ecc71' for low; the radius is 6 for every input.
C13_StyleFor ==
    HasRendered =>
        /\ rendered.marker.radius = 6
        /\ rendered.marker.fillColor =
               (IF probe.priority = "medium" THEN "#f39c12"
                ELSE IF probe.priority = "low" THEN "#2ecc71"
                ELSE "#e74c3c")

NewAlerts == {h \in map' \ map : h.kind = "alert"}

\* C14: a heat feature without LST is coloured as a feature whose LST is 25.0
\* and a mitigation feature without priority is styled as one whose priority
\* is high; rendering either raises no error and shows no notice.
C14_MissingFieldDefaults ==
    [][/\ \A t \in heatTasks :
             HeatAddLayer(t) =>
                 /\ \A i \in 1..Len(t.data) :
                        t.data[i] = NoLST =>
                            uhiLayer'.items[i] = getTemperatureColor(2500)
                 /\ uhiLayer' \in map'
                 /\ NewAlerts = {}
       /\ \A t \in mitTasks, data \in MitResponses :
             MitData(t, data) =>
                 /\ \A i \in 1..Len(data) :
                        data[i] = NoPriority =>
                            mitigationLayer'.items[i] = colors["high"]
                 /\ Attached("cluster")' # {}
                 /\ NewAlerts = {}
                 /\ alertShown' = alertShown]_vars

C14_Witness ==
    /\ uhiLayer \in map
    /\ uhiLayer.items = <<"#66bd63", "#66bd63">>
    /\ mitigationLayer # Null
    /\ mitigationLayer.items[2] = "#e74c3c"
    /\ Attached("alert") = {}
    /\ alertShown = AlertNone

\* The backdrop a selector value identifies: street for an unrecognized value.
Backdrop(value) ==
    IF value = "satellite" THEN baseLayers["Satellite"]
    ELSE IF value = "topo" THEN baseLayers["Topographical"]
    ELSE IF value = "hybrid" THEN baseLayers["Hybrid"]
    ELSE baseLayers["Street Map"]

\* C15: the base-map selection is remembered across restarts: from the moment
\* the view opens, the one backdrop attached to the map is the one the
\* base-map selector shows, which at opening is the persisted selection
\* (street when nothing is persisted).
C15_BaseMapRemembered == Attached("tile") = {Backdrop(baseMapSelect)}

\* C16: every change of the base-map selection leaves exactly one backdrop
\* attached, the one just selected (street for an unrecognized value), persists
\* the selected value, and changes neither currentDateRange, the heat layer,
\* the legend, the mitigation layer, a trigger's enabled state nor a load in
\* flight.
C16_BaseMapSwitching ==
    [][\A v \in BaseMapValues :
          BaseMapChange(v) =>
              /\ Attached("tile")' = {Backdrop(v)}
              /\ selectedBaseMap' = v
              /\ baseMapSelect' = v
              /\ map' \ Attached("tile")' = map \ Attached("tile")
              /\ UNCHANGED <<uhiLayer, legend, mitigationLayer, currentDateRange,
                             loadBtnDisabled, mitBtnDisabled, heatTasks, mitTasks>>]_vars

C16_Witness ==
    /\ Attached("tile") = {baseLayers["Hybrid"]}
    /\ selectedBaseMap = "hybrid"
    /\ heatTasks # {}
    /\ loadBtnDisabled
    /\ mitigationLayer # Null

\* The threshold values of the classifier: the whole degrees, in hundredths, at
\* which the band changes.
Thresholds ==
    {t \in {100 * d : d \in 0..60} : getTemperatureColor(t) # getTemperatureColor(t + 1)}

\* The boundary value a legend label shows, in hundredths of a degree.
LabelValue(label) ==
    IF label = "20" THEN 2000
    ELSE IF label = "22" THEN 2200
    ELSE IF label = "25" THEN 2500
    ELSE IF label = "27" THEN 2700
    ELSE IF label = "30" THEN 3000
    ELSE IF label = "32" THEN 3200
    ELSE IF label = "35" THEN 3500
    ELSE IF label = "37" THEN 3700
    ELSE IF label \in {"40", "40+"} THEN 4000
    ELSE -1

\* C17: the boundary values the attached legend shows are exactly the
\* thresholds of the classifier (40, 37, 35, 32, 30, 27, 25, 22, 20), in the
\* same descending order.
C17_LegendMatchesClassifier ==
    legend \in map =>
        LET shown == [i \in 1..Len(legend.items) |-> LabelValue(legend.items[i])]
        IN /\ {shown[i] : i \in 1..Len(shown)} = Thresholds
           /\ \A i, j \in 1..Len(shown) : i < j => shown[i] > shown[j]

\* C18: from a state where the 31-day range of the scenario has not been
\* loaded, triggering "load heat data" with it validates Ok and issues exactly
\* one backend call; a response with LST 41, 33 and 18 is attached as a heat
\* layer classified extreme, moderateHigh and cold, and the legend attached
\* with it shows the 4 labels 25, 30, 35, 40+.
C18_EndToEndScenario ==
    [][/\ (/\ LoadDataClick(DefaultStart, DefaultEnd)
            /\ lastLoaded # DateRange(DefaultStart, DefaultEnd))
           => /\ validateDates(DefaultStart, DefaultEnd).ok
              /\ heatCalls' = heatCalls + 1
       /\ \A t \in heatTasks :
             (HeatAddLayer(t) /\ t.data = <<4100, 3300, 1800>>)
             => /\ uhiLayer' \in map'
                /\ [i \in 1..3 |-> BandName(uhiLayer'.items[i])]
                       = <<"extreme", "moderateHigh", "cold">>
       /\ \A t \in heatTasks :
             HeatAddLegend(t)
             => /\ legend' \in map'
                /\ legend'.items = <<"25", "30", "35", "40+">>]_vars

\* The step attaches exactly one new notice, of kind error.
OneErrorNotice ==
    /\ Cardinality(NewAlerts) = 1
    /\ \A h \in NewAlerts : h.items = <<"error">>

\* C19: every rejected date range, every transport error and every error the
\* backend reports produces exactly one notice of kind error through
\* showAlert, and is reported through no other channel (no alert() dialog).
C19_ErrorsThroughNotices ==
    [][/\ \A d \in DateInputs :
             (LoadDataClick(d[1], d[2]) /\ ~validateDates(d[1], d[2]).ok)
             => (OneErrorNotice /\ alertShown' = AlertNone)
       /\ (HeatFailure \/ MitFailure)
             => (OneErrorNotice /\ alertShown' = alertShown)]_vars

\* A step in which some handler's catch block calls showAlert.
ShowAlertCalled ==
    \/ \E t \in heatTasks : HeatFetchRejected(t) \/ HeatJsonRejected(t) \/ HeatErrorBody(t)
    \/ \E t \in mitTasks : MitFetchRejected(t) \/ MitJsonRejected(t) \/ MitErrorBody(t)

\* What neither a new nor an expiring notice may change.
NoticeFrame ==
    /\ map' \ Attached("alert")' = map \ Attached("alert")
    /\ UNCHANGED <<uhiLayer, legend, mitigationLayer, currentDateRange,
                   loadBtnDisabled, mitBtnDisabled>>

\* C20: every showAlert call attaches a notice of its own next to the notices
\* already shown; every notice is eventually removed by its own expiry timer,
\* which removes that notice only; and neither step changes currentDateRange,
\* the heat, legend or mitigation layers, or a trigger's enabled state.
C20_NoticesSelfExpiring ==
    /\ [][/\ ShowAlertCalled =>
                 /\ Cardinality(NewAlerts) = 1
                 /\ Attached("alert")' = Attached("alert") \cup NewAlerts
                 /\ NoticeFrame
           /\ \A h \in map :
                 AlertExpires(h) =>
                     /\ Attached("alert")' = Attached("alert") \ {h}
                     /\ NoticeFrame]_vars
    /\ \A h \in Notices : (h \in map) ~> (h \notin map)

C20_Witness ==
    /\ Cardinality(Attached("alert")) >= 2
    /\ \E h \in Attached("alert") : h.origin = "heat"
    /\ \E h \in Attached("alert") : h.origin = "mitigation"
    /\ heatCalls > 0
    /\ ~loadBtnDisabled

\* C21: whenever a heat layer is attached and no handler is in the middle of
\* its synchronous tail, currentDateRange is the range whose successful
\* response produced that layer and the attached legend is annotated with
\* that same range; a load that fails or is in flight does not change it.
C21_CurrentRangeTracksData ==
    (~Busy /\ uhiLayer \in map) =>
        /\ currentDateRange = lastLoaded
        /\ legend \in map
        /\ legend.n = uhiLayer.n
        /\ legend.range = lastLoaded

\* C22: the first "load heat data" trigger after the view opens, with the
\* untouched default dates and no heat layer attached, issues one backend
\* call; the successful response to it attaches a heat layer and a legend.
C22_FirstLoadAfterOpening ==
    [][/\ (/\ clickOutcome = "none"
            /\ heatCalls = 0
            /\ uhiLayer = Null
            /\ LoadDataClick(DefaultStart, DefaultEnd))
           => /\ heatCalls' = 1
              /\ \E t \in heatTasks' : t.n = 1 /\ t.pc = "fetch"
       /\ \A t \in heatTasks :
             (t.n = 1 /\ HeatAddLegend(t))
             => (uhiLayer' \in map' /\ legend' \in map')]_vars

\* C23: for every content of the two date inputs, the empty one included, a
\* non-null currentDateRange satisfies start <= end and end - start <= 365
\* days, and so does the range of every heat request in flight.
C23_DateRangeInvariant ==
    /\ currentDateRange # NoRange
           => ValidRange(currentDateRange.start, currentDateRange.end)
    /\ \A t \in heatTasks : ValidRange(t.startDate, t.endDate)

\* The state of the heat track, with what it has attached to the map.
HeatTrack ==
    <<currentDateRange, uhiLayer, legend, loadBtnDisabled, heatTasks, heatCalls,
      {h \in map : h.origin = "heat" /\ h.kind # "alert"}>>

\* The state of the mitigation track, with what it has attached to the map.
MitTrack ==
    <<mitigationLayer, mitBtnDisabled, mitTasks, mitCalls,
      {h \in map : h.origin = "mitigation" /\ h.kind # "alert"}>>

\* Where the heat track ends after its one request, by the outcome alone.
HeatTrackSettled ==
    (heatCalls = 1 /\ heatTasks = {}) =>
        /\ ~loadBtnDisabled
        /\ IF lastLoaded # NoRange
           THEN /\ currentDateRange = lastLoaded
                /\ \E data \in HeatResponses :
                       uhiLayer = Handle("heat", "heat", 1, FillColors(data), NoRange, "")
                /\ legend = Handle("legend", "heat", 1, LegendLabels, lastLoaded, "")
                /\ {h \in map : h.origin = "heat" /\ h.kind # "alert"} = {uhiLayer, legend}
           ELSE /\ uhiLayer = Null
                /\ legend = Null
                /\ {h \in map : h.origin = "heat" /\ h.kind # "alert"} = {loadingControl(1)}

\* Where the mitigation track ends after its one request, by the outcome alone.
MitTrackSettled ==
    (mitCalls = 1 /\ mitTasks = {}) =>
        /\ ~mitBtnDisabled
        /\ \/ /\ mitigationLayer = Null
              /\ {h \in map : h.origin = "mitigation" /\ h.kind # "alert"} = {}
           \/ \E data \in MitResponses :
                 /\ mitigationLayer =
                        Handle("geojson", "mitigation", 1, MarkerColors(data), NoRange, "")
                 /\ {h \in map : h.origin = "mitigation" /\ h.kind # "alert"} =
                        {Handle("cluster", "mitigation", 1, MarkerColors(data), NoRange, "")}

\* C24: the heat and mitigation tracks are independent under every
\* interleaving: no step of one track changes the state of the other, and
\* after one request of a track has ended the track is where the outcome of
\* that request alone puts it, whether or not the other track ran meanwhile.
C24_TracksIndependent ==
    [][/\ (ShowMitigationClick \/ MitResponse) => UNCHANGED HeatTrack
       /\ ((\E d \in DateInputs : LoadDataClick(d[1], d[2])) \/ HeatResponse)
             => UNCHANGED MitTrack
       /\ HeatTrackSettled'
       /\ MitTrackSettled']_vars

C24_Witness ==
    /\ heatCalls = 1
    /\ mitCalls = 1
    /\ \E t \in heatTasks : t.pc = "addLegend"
    /\ \E t \in mitTasks : t.pc = "json"
    /\ uhiLayer \in map

\* C25: a heat feature whose LST is present as a number, 0 included, is
\* filled with the colour of its own value; 25.0 is substituted only for an
\* absent LST.
C25_PresentValueClassified ==
    HasRendered =>
        rendered.style.fillColor =
            (IF probe.a = NoLST THEN getTemperatureColor(2500) ELSE rendered.colorA)
====
